---------------------------- MODULE Spec2Model ----------------------------
(***************************************************************************)
(* Model of the Movies GraphRAG server of solutions/10c-paginated-tool     *)
(* (the superset of the 2c and 6c solutions): the app_lifespan wrapper     *)
(* that owns the Neo4j driver, and the four handlers graph_statistics,     *)
(* get_movies_by_genre, get_movie and list_movies_by_genre.                *)
(*                                                                         *)
(* Python values are modelled as follows.  A str is the sequence of its    *)
(* pieces (concatenation is \o), wrapped as PyStr(s); None is PyNone.  A   *)
(* numeric property that may be null uses NullNum.  Titles are ordered by  *)
(* TitleRank, the position of the title in the database's collation.       *)
(***************************************************************************)
EXTENDS Integers, Sequences, FiniteSets, TLC

VARIABLES
    env_database,      \* value of NEO4J_DATABASE in the environment, or Unset
    homeDb,            \* database the server resolves when database_ is not given
    graph,             \* database name -> set of Movie node ids stored in it
    pc,                \* position of app_lifespan
    driver,            \* the driver object created by app_lifespan
    lifespan_context,  \* the AppContext yielded by app_lifespan
    last,              \* the handler invocation whose response is pending
    walk               \* a client following next_cursor from cursor = 0

vars == <<env_database, homeDb, graph, pc, driver, lifespan_context, last, walk>>

---------------------------------------------------------------------------
(* Bounds of the model *)

NumMovies == 4
MaxPageSize == 2
MaxCursor == 2
MaxLimit == 2

---------------------------------------------------------------------------
(* Python and Cypher values *)

PyNone == [kind |-> "None"]
PyStr(s) == [kind |-> "str", s |-> s]
NullNum == -1
NoDatabase == "<driver default>"
Unset == "<unset>"
NoExc == "<no exception>"

Min(a, b) == IF a < b THEN a ELSE b
Max(a, b) == IF a > b THEN a ELSE b

\* Python truthiness of a str-or-None value: None and "" are falsy.
Truthy(v) == v.kind = "str" /\ v.s # <<>>

\* str(v) as an f-string formats it: None prints as "None".
Fmt(v) == IF v.kind = "None" THEN <<"None">> ELSE v.s

---------------------------------------------------------------------------
(* The movie catalogue: the nodes a database may hold.  Movie ids are the  *)
(* tmdbId values.                                                          *)

MovieIds == 1..NumMovies
DbNames == {"neo4j", "movies"}
Genres == {"Action", "Drama", "Western"}
QueryErrors == {"ServiceUnavailable", "ClientError"}

TitleText == <<"Alien", "Brazil", "Casino", "Dune", "Eraserhead", "Fargo">>

\* Movies 2 and 3 carry the same title.
TitleRank(i) == IF i = 3 THEN 2 ELSE i

Title(i) == PyStr(<<TitleText[TitleRank(i)]>>)

ImdbRating(i) ==
    CASE i = 1 -> 8
      [] i = 2 -> NullNum
      [] i = 3 -> 0
      [] i = 4 -> 8
      [] OTHER -> 5

Released(i) == IF i = 2 THEN PyNone ELSE PyStr(<<"1999">>)

Tagline(i) ==
    CASE i = 1 -> PyStr(<<"In space no one can hear you scream">>)
      [] i = 2 -> PyNone
      [] i = 3 -> PyStr(<<>>)
      [] OTHER -> PyStr(<<"A tagline">>)

Runtime(i) == IF i = 2 THEN PyNone ELSE PyStr(<<"117">>)

Plot(i) == IF i = 3 THEN PyNone ELSE PyStr(<<"A plot">>)

GenresOf(i) == IF i % 2 = 0 THEN <<"Action", "Drama">> ELSE <<"Action">>

Directors(i) ==
    CASE i = 1 -> <<"Ridley Scott">>
      [] i = 2 -> <<>>
      [] OTHER -> <<"Terry Gilliam", "Joel Coen">>

Actors(i) ==
    CASE i = 1 -> << [name |-> PyStr(<<"Sigourney Weaver">>), role |-> PyStr(<<"Ripley">>)],
                     [name |-> PyStr(<<"John Hurt">>), role |-> PyNone] >>
      [] i = 2 -> <<>>
      [] OTHER -> << [name |-> PyStr(<<"Jonathan Pryce">>), role |-> PyStr(<<>>)] >>

Range(s) == {s[k] : k \in DOMAIN s}

InGenre(g, genre) == {i \in g : genre \in Range(GenresOf(i))}


---------------------------------------------------------------------------
(* Cypher: ORDER BY, SKIP and LIMIT over a set of matched nodes.  Rows     *)
(* with equal sort keys come back in an order the database chooses.        *)

Perms(S) ==
    {f \in [1..Cardinality(S) -> S] :
        \A a, b \in 1..Cardinality(S) : a # b => f[a] # f[b]}

\* ORDER BY key ASC over the rows S, key a function on S.
OrderBy(S, key) ==
    {f \in Perms(S) : \A k \in 1..(Cardinality(S) - 1) : key[f[k]] <= key[f[k + 1]]}

Skip(rows, n) == SubSeq(rows, n + 1, Len(rows))

Limit(rows, n) == SubSeq(rows, 1, Min(n, Len(rows)))

\* coalesce(m.imdbRating, 0)
Coalesce(v, dflt) == IF v = NullNum THEN dflt ELSE v

\* Mutant: the ratings ordered ascending.
RatingDescKey_asc(i) == Coalesce(ImdbRating(i), 0)

\* ORDER BY coalesce(m.imdbRating, 0) DESC
RatingDescKey(i) == 0 - Coalesce(ImdbRating(i), 0)

\* RETURN m.title AS title, m.imdbRating AS imdbRating, m.released AS released
TopRow(i) == [title |-> Title(i), imdbRating |-> ImdbRating(i), released |-> Released(i)]

\* RETURN m.title AS title, m.released AS released, m.imdbRating AS rating
PageRow(i) == [title |-> Title(i), released |-> Released(i), rating |-> ImdbRating(i)]

\* RETURN of the get_movie query
DetailRow(i) ==
    [title |-> Title(i), released |-> Released(i), tagline |-> Tagline(i),
     runtime |-> Runtime(i), plot |-> Plot(i), genres |-> GenresOf(i),
     actors |-> Actors(i), directors |-> Directors(i)]

\* The result sets the get_movies_by_genre query can produce on store g.
TopByGenreQuery(g, genre, limit) ==
    {[k \in DOMAIN Limit(o, limit) |-> TopRow(o[k])] :
        o \in OrderBy(InGenre(g, genre), [i \in InGenre(g, genre) |-> RatingDescKey(i)])}

\* The result sets the list_movies_by_genre query can produce on store g.
PageByGenreQuery(g, genre, skip, limit) ==
    {[k \in DOMAIN Limit(Skip(o, skip), limit) |-> PageRow(Skip(o, skip)[k])] :
        o \in OrderBy(InGenre(g, genre), [i \in InGenre(g, genre) |-> TitleRank(i)])}

\* The result sets the get_movie query can produce on store g.
MovieByIdQuery(g, tmdb_id) ==
    {[k \in DOMAIN o |-> DetailRow(o[k])] : o \in Perms({i \in g : i = tmdb_id})}

\* The relationships of movie i: IN_GENRE, DIRECTED and ACTED_IN.
RelCount(i) == Len(GenresOf(i)) + Len(Directors(i)) + Len(Actors(i))

RECURSIVE SumRels(_)
SumRels(S) ==
    IF S = {} THEN 0
    ELSE LET i == CHOOSE x \in S : TRUE IN RelCount(i) + SumRels(S \ {i})

ActorNames(i) == [k \in DOMAIN Actors(i) |-> Actors(i)[k].name.s[1]]

\* RETURN COUNT {()} AS nodes, COUNT {()-[]-()} AS relationships: the
\* undirected pattern matches every relationship from both of its ends.
StatisticsQuery(g) ==
    LET genreNodes == UNION {Range(GenresOf(i)) : i \in g}
        personNodes == UNION {Range(Directors(i)) \cup Range(ActorNames(i)) : i \in g}
        rels == SumRels(g)
    IN  {<< [nodes |-> Cardinality(g) + Cardinality(genreNodes) + Cardinality(personNodes),
             relationships |-> 2 * rels] >>}

\* driver.execute_query(query, database_=db): the database the query runs
\* against, the driver's home database when database_ is not given.
TargetOf(database_) == IF database_ = NoDatabase THEN homeDb ELSE database_

\* The outcomes of driver.execute_query: an exception, or one of the result
\* sets the query can produce.
ExecuteQuery(results) ==
    {[exc |-> e, records |-> <<>>] : e \in QueryErrors}
        \cup {[exc |-> NoExc, records |-> r] : r \in results}

---------------------------------------------------------------------------
(* Handler invocations.  last holds the invocation whose response the      *)
(* server has not delivered yet: its arguments, the context it was served, *)
(* the query it issued, its log messages and its result.                   *)

None == NullNum

IdText == <<"0", "1", "2", "3", "4", "5", "6", "7">>

Log(level, msg, exc) == [level |-> level, msg |-> msg, exc |-> exc]

NoCall ==
    [op |-> "none", genre |-> "", limit |-> None, page_size |-> None, cursor |-> None,
     tmdb_id |-> None, driver |-> 0, driverOpen |-> FALSE, database |-> "",
     target |-> "", queries |-> 0, queryExc |-> NoExc, logs |-> <<>>,
     outcome |-> "none", exc |-> NoExc, movies |-> <<>>, next_cursor |-> None,
     page |-> None, has_more |-> FALSE, text |-> <<>>,
     stats |-> [nodes |-> 0, relationships |-> 0]]

\* ctx.request_context.lifespan_context as the handler named op reads it.
Served(op) ==
    [NoCall EXCEPT !.op = op,
                   !.driver = lifespan_context.driver,
                   !.driverOpen = driver.open,
                   !.database = lifespan_context.database]

\* A handler's call of driver.execute_query with outcome r.
Queried(call, database_, r) ==
    [call EXCEPT !.target = TargetOf(database_),
                 !.queries = @ + 1,
                 !.queryExc = r.exc]

\* Mutant: the exception is logged and swallowed, the handler returns.
ExceptBranch_swallow(call, msg, e) ==
    [call EXCEPT !.logs = @ \o <<Log("error", msg, e)>>,
                 !.outcome = "return"]

\* except Exception as e: await ctx.error(f"<msg>{str(e)}"); raise
ExceptBranch(call, msg, e) ==
    [call EXCEPT !.logs = @ \o <<Log("error", msg, e)>>,
                 !.outcome = "raise",
                 !.exc = e]

\* An exception that leaves the handler outside any try block.
Propagate(call, e) == [call EXCEPT !.outcome = "raise", !.exc = e]

Info(call, msg) == [call EXCEPT !.logs = @ \o <<Log("info", msg, NoExc)>>]
Debug(call, msg) == [call EXCEPT !.logs = @ \o <<Log("debug", msg, NoExc)>>]
Warning(call, msg) == [call EXCEPT !.logs = @ \o <<Log("warning", msg, NoExc)>>]

(* graph_statistics *)

graph_statistics_body(call, r) ==
    LET q == Queried(call, call.database, r) IN
    IF r.exc # NoExc THEN Propagate(q, r.exc)
    ELSE IF r.records # <<>>
         THEN [q EXCEPT !.outcome = "return", !.stats = r.records[1]]
         ELSE [q EXCEPT !.outcome = "return",
                        !.stats = [nodes |-> 0, relationships |-> 0]]

(* get_movies_by_genre *)

get_movies_by_genre_body(call, r) ==
    LET c1 == Info(call, "Searching for movies")
        c2 == Debug(c1, "Executing Cypher query for genre")
        q == Queried(c2, NoDatabase, r)
    IN  IF r.exc # NoExc THEN ExceptBranch(q, "Query failed: ", r.exc)
        ELSE LET movies == r.records
                 c3 == Info(q, "Found movies")
                 c4 == IF Len(movies) = 0
                       THEN Warning(c3, "No movies found for genre") ELSE c3
             IN  [c4 EXCEPT !.outcome = "return", !.movies = movies]

(* get_movie *)

RECURSIVE JoinPieces(_, _)
JoinPieces(sep, strs) ==
    IF strs = <<>> THEN <<>>
    ELSE IF Len(strs) = 1 THEN strs[1]
    ELSE strs[1] \o <<sep>> \o JoinPieces(sep, Tail(strs))

\* sep.join(items): TypeError unless every item is a str.
Join(sep, items) ==
    IF \E k \in DOMAIN items : items[k].kind # "str"
    THEN [exc |-> "TypeError", s |-> <<>>]
    ELSE [exc |-> NoExc, s |-> JoinPieces(sep, [k \in DOMAIN items |-> items[k].s])]

\* sep.join(names) for a list of node names
JoinNames(sep, names) == JoinPieces(sep, [k \in DOMAIN names |-> <<names[k]>>])

CastLine(actor) ==
    IF Truthy(actor.role)
    THEN PyStr(<<"- ">> \o Fmt(actor.name) \o <<" as ">> \o Fmt(actor.role))
    ELSE PyStr(<<"- ">> \o Fmt(actor.name))

\* The list output that get_movie builds for one record.
FormatMovie(movie) ==
    <<PyStr(<<"# ">> \o Fmt(movie.title) \o <<" (">> \o Fmt(movie.released) \o <<")">>),
      PyStr(<<>>)>>
    \o (IF Truthy(movie.tagline)
        THEN <<PyStr(<<"_">> \o Fmt(movie.tagline) \o <<"_">>), PyStr(<<>>)>>
        ELSE <<>>)
    \o <<PyStr(<<"**Runtime:** ">> \o Fmt(movie.runtime) \o <<" minutes">>),
         PyStr(<<"**Genres:** ">> \o JoinNames(", ", movie.genres))>>
    \o (IF movie.directors # <<>>
        THEN <<PyStr(<<"**Director(s):** ">> \o JoinNames(", ", movie.directors))>>
        ELSE <<>>)
    \o <<PyStr(<<>>), PyStr(<<"## Plot">>), movie.plot>>
    \o (IF movie.actors # <<>>
        THEN <<PyStr(<<>>), PyStr(<<"## Cast">>)>>
             \o [k \in DOMAIN movie.actors |-> CastLine(movie.actors[k])]
        ELSE <<>>)

get_movie_body(call, r) ==
    LET c1 == Info(call, "Fetching movie details for TMDB ID")
        q == Queried(c1, call.database, r)
    IN  IF r.exc # NoExc THEN ExceptBranch(q, "Failed to fetch movie: ", r.exc)
        ELSE IF r.records = <<>>
        THEN [Warning(q, "Movie not found")
                EXCEPT !.outcome = "return",
                       !.text = <<"Movie with TMDB ID ", IdText[call.tmdb_id + 1],
                                  " not found in database">>]
        ELSE LET movie == r.records[1]
                 result == Join("\n", FormatMovie(movie))
             IN  IF result.exc # NoExc
                 THEN ExceptBranch(q, "Failed to fetch movie: ", result.exc)
                 ELSE [Info(q, "Successfully fetched details")
                         EXCEPT !.outcome = "return", !.text = result.s]

(* list_movies_by_genre *)

\* Mutant: the cursor taken as the row offset itself.
SkipOf_offset(cursor, page_size) == cursor

\* skip = cursor * page_size
SkipOf(cursor, page_size) == cursor * page_size

\* page_num = (skip // page_size) + 1
PageNum(skip, page_size) == (skip \div page_size) + 1

\* Mutant: any non-empty page is taken to have a successor.
NextCursor_nonempty(n, skip, page_size) == IF n > 0 THEN skip + page_size ELSE None

\* next_cursor = None; if len(movies) == page_size: next_cursor = skip + page_size
NextCursor(n, skip, page_size) == IF n = page_size THEN skip + page_size ELSE None

list_movies_by_genre_body(call, r) ==
    LET skip == SkipOf(call.cursor, call.page_size)
        page_num == PageNum(skip, call.page_size)
        c1 == Info(call, "Fetching movies")
        q == Queried(c1, NoDatabase, r)
    IN  IF r.exc # NoExc THEN ExceptBranch(q, "Query failed: ", r.exc)
        ELSE LET movies == r.records
                 next_cursor == NextCursor(Len(movies), skip, call.page_size)
                 c2 == Info(q, "Returned movies from page")
                 c3 == IF next_cursor = None THEN Info(c2, "This is the last page") ELSE c2
             IN  [c3 EXCEPT !.outcome = "return",
                            !.movies = movies,
                            !.next_cursor = next_cursor,
                            !.page = page_num,
                            !.has_more = (next_cursor # None)]

\* The responses list_movies_by_genre(genre, page_size, cursor) can give.
list_movies_by_genre_responses(genre, page_size, cursor) ==
    LET call == [Served("list_movies_by_genre")
                    EXCEPT !.genre = genre, !.page_size = page_size, !.cursor = cursor]
    IN  IF page_size = 0
        THEN {Propagate(call, "ZeroDivisionError")}
        ELSE {list_movies_by_genre_body(call, r) :
                r \in ExecuteQuery(PageByGenreQuery(graph[TargetOf(NoDatabase)], genre,
                                                    SkipOf(cursor, page_size), page_size))}

---------------------------------------------------------------------------
(* The server: app_lifespan around the handlers *)

NoDriver == [id |-> 0, open |-> FALSE, created |-> 0, closes |-> 0]
NoContext == [driver |-> 0, database |-> ""]

NoWalk ==
    [state |-> "idle", genre |-> "", page_size |-> None, cursor |-> 0,
     pages |-> <<>>, seen |-> <<>>]

\* os.getenv(name, default)
GetEnv(value, default) == IF value = Unset THEN default ELSE value

\* AsyncGraphDatabase.driver(uri, auth=...)
NewDriver(d) == [id |-> d.created + 1, open |-> TRUE, created |-> d.created + 1,
                 closes |-> d.closes]

\* await driver.close()
Close(d) == [d EXCEPT !.open = FALSE, !.closes = @ + 1]

\* The finally clause of app_lifespan, run however the body was left.
Finally(d) == Close(d)

Init ==
    /\ env_database \in {Unset, "movies"}
    /\ homeDb \in DbNames
    /\ graph \in [DbNames -> SUBSET MovieIds]
    /\ pc = "start"
    /\ driver = NoDriver
    /\ lifespan_context = NoContext
    /\ last = NoCall
    /\ walk = NoWalk

\* app_lifespan up to its yield: the server starts serving.
app_lifespan_enter ==
    /\ pc = "start"
    /\ LET database == GetEnv(env_database, "neo4j")
           d == NewDriver(driver)
       IN  /\ driver' = d
           /\ lifespan_context' = [driver |-> d.id, database |-> database]
    /\ pc' = "serving"
    /\ UNCHANGED <<env_database, homeDb, graph, last, walk>>

\* AsyncGraphDatabase.driver raises (a URI it cannot parse): no context is
\* yielded and the server never serves.
app_lifespan_fail ==
    /\ pc = "start"
    /\ pc' = "failed"
    /\ UNCHANGED <<env_database, homeDb, graph, driver, lifespan_context, last, walk>>

\* Mutant: driver.close() follows the yield without try/finally, so an
\* exception thrown in at the yield skips it.
app_lifespan_exit_no_finally ==
    /\ pc = "serving"
    /\ \E how \in {"stopped", "crashed"} :
          /\ driver' = IF how = "stopped" THEN Close(driver) ELSE driver
          /\ pc' = how
    /\ UNCHANGED <<env_database, homeDb, graph, lifespan_context, last, walk>>

\* The server body ends, normally or with an exception thrown in at the
\* yield; the finally clause closes the driver either way.
app_lifespan_exit ==
    /\ pc = "serving"
    /\ \E how \in {"stopped", "crashed"} :
          /\ driver' = Finally(driver)
          /\ pc' = how
    /\ UNCHANGED <<env_database, homeDb, graph, lifespan_context, last, walk>>

\* What a handler leaves behind besides its response.
HandlerFrame == UNCHANGED <<env_database, homeDb, graph, pc, driver, lifespan_context, walk>>

\* The framework runs handlers only inside the lifespan.  A handler touches
\* nothing but its own locals, so concurrent invocations are taken in the
\* order in which they complete: last holds one invocation until Respond.
CanServe == pc = "serving" /\ last.op = "none"

graph_statistics ==
    /\ CanServe
    /\ LET call == Served("graph_statistics") IN
       \E r \in ExecuteQuery(StatisticsQuery(graph[TargetOf(call.database)])) :
          last' = graph_statistics_body(call, r)
    /\ HandlerFrame

\* Mutant: the handler runs its query inside "async with driver", which
\* closes the shared driver when the block ends.
get_movies_by_genre_closing ==
    /\ CanServe
    /\ \E genre \in Genres, limit \in 0..MaxLimit :
          LET call == [Served("get_movies_by_genre")
                          EXCEPT !.genre = genre, !.limit = limit]
          IN  \E r \in ExecuteQuery(TopByGenreQuery(graph[TargetOf(NoDatabase)], genre, limit)) :
                 last' = get_movies_by_genre_body(call, r)
    /\ driver' = Close(driver)
    /\ UNCHANGED <<env_database, homeDb, graph, pc, lifespan_context, walk>>

get_movies_by_genre ==
    /\ CanServe
    /\ \E genre \in Genres, limit \in 0..MaxLimit :
          LET call == [Served("get_movies_by_genre")
                          EXCEPT !.genre = genre, !.limit = limit]
          IN  \E r \in ExecuteQuery(TopByGenreQuery(graph[TargetOf(NoDatabase)], genre, limit)) :
                 last' = get_movies_by_genre_body(call, r)
    /\ HandlerFrame

get_movie ==
    /\ CanServe
    /\ \E tmdb_id \in 0..(NumMovies + 1) :
          LET call == [Served("get_movie") EXCEPT !.tmdb_id = tmdb_id]
          IN  \E r \in ExecuteQuery(MovieByIdQuery(graph[TargetOf(call.database)], tmdb_id)) :
                 last' = get_movie_body(call, r)
    /\ HandlerFrame

list_movies_by_genre ==
    /\ CanServe
    /\ \E genre \in Genres, page_size \in 0..MaxPageSize, cursor \in 0..MaxCursor :
          \E rsp \in list_movies_by_genre_responses(genre, page_size, cursor) :
             last' = rsp
    /\ HandlerFrame

\* The framework delivers the pending response to the client.
Respond ==
    /\ pc = "serving"
    /\ last.op # "none"
    /\ last' = NoCall
    /\ UNCHANGED <<env_database, homeDb, graph, pc, driver, lifespan_context, walk>>

Next ==
    \/ app_lifespan_enter
    \/ app_lifespan_fail
    \/ app_lifespan_exit
    \/ graph_statistics
    \/ get_movies_by_genre
    \/ get_movie
    \/ list_movies_by_genre
    \/ Respond

Spec == Init /\ [][Next]_vars

---------------------------------------------------------------------------
(* A client that pages through a genre as the docstring of                 *)
(* list_movies_by_genre describes: it starts at cursor = 0 and passes each *)
(* non-null next_cursor as the cursor of its next call.                    *)

WalkStep(genre, page_size, cursor) ==
    \E rsp \in list_movies_by_genre_responses(genre, page_size, cursor) :
       walk' = [state |-> IF rsp.outcome = "raise" THEN "failed"
                          ELSE IF rsp.next_cursor = None THEN "done" ELSE "walking",
                genre |-> genre,
                page_size |-> page_size,
                cursor |-> rsp.next_cursor,
                pages |-> IF rsp.outcome = "raise" THEN walk.pages
                          ELSE Append(walk.pages, rsp.page),
                seen |-> walk.seen \o rsp.movies]

WalkStart ==
    /\ pc = "serving"
    /\ walk.state = "idle"
    /\ \E genre \in Genres, page_size \in 1..MaxPageSize : WalkStep(genre, page_size, 0)
    /\ UNCHANGED <<env_database, homeDb, graph, pc, driver, lifespan_context, last>>

WalkNext ==
    /\ pc = "serving"
    /\ walk.state = "walking"
    /\ WalkStep(walk.genre, walk.page_size, walk.cursor)
    /\ UNCHANGED <<env_database, homeDb, graph, pc, driver, lifespan_context, last>>

NextWalk ==
    \/ app_lifespan_enter
    \/ WalkStart
    \/ WalkNext

SpecWalk == Init /\ [][NextWalk]_vars

---------------------------------------------------------------------------
(* Properties *)

IsReturn(op) == last.op = op /\ last.outcome = "return"

\* The movies of the requested genre in the database the pending call's
\* query ran against.
GenreMovies == InGenre(graph[last.target], last.genre)

\* The orderings of S by title ascending.
ByTitle(S) ==
    {o \in Perms(S) : \A a, b \in 1..Cardinality(S) :
        a < b => TitleRank(o[a]) <= TitleRank(o[b])}

\* imdbRating with a missing rating ranked as 0.
RankedRating(i) == IF ImdbRating(i) = NullNum THEN 0 ELSE ImdbRating(i)

\* The orderings of S by rating descending.
ByRatingDesc(S) ==
    {o \in Perms(S) : \A a, b \in 1..Cardinality(S) :
        a < b => RankedRating(o[a]) >= RankedRating(o[b])}

\* C1: a page returned by list_movies_by_genre holds exactly the entries at
\* offsets cursor*page_size up to, excluding, cursor*page_size + page_size of
\* the genre's movies in title order, cut at the end of that list, and never
\* more than page_size of them.
C1_PageIsSlice ==
    IsReturn("list_movies_by_genre") =>
        LET lo == last.cursor * last.page_size
            hi == Min(lo + last.page_size, Cardinality(GenreMovies))
        IN  /\ Len(last.movies) <= last.page_size
            /\ Len(last.movies) = Max(0, hi - lo)
            /\ \E o \in ByTitle(GenreMovies) :
                  \A k \in 1..Len(last.movies) :
                     last.movies[k] = [title |-> Title(o[lo + k]),
                                       released |-> Released(o[lo + k]),
                                       rating |-> ImdbRating(o[lo + k])]

\* A second page of size 2 that the end of the list cuts to one movie.
C1_Witness ==
    /\ IsReturn("list_movies_by_genre")
    /\ last.cursor = 1
    /\ last.page_size = 2
    /\ Len(last.movies) = 1

C3_WalkCoversGenre ==
    LET S == InGenre(graph[homeDb], walk.genre) IN
    (/\ walk.state = "done"
     /\ \A i, j \in S : i # j => TitleRank(i) # TitleRank(j))
        => /\ \E o \in ByTitle(S) :
                 walk.seen = [k \in 1..Cardinality(S) |->
                                 [title |-> Title(o[k]), released |-> Released(o[k]),
                                  rating |-> ImdbRating(o[k])]]
           /\ walk.pages = [k \in 1..Len(walk.pages) |-> k]

\* C4: has_more is true exactly when the genre has a movie at an offset
\* beyond the current page.
C4_HasMoreIffMoreMovies ==
    IsReturn("list_movies_by_genre") =>
        (last.has_more <=>
            Cardinality(GenreMovies) > last.cursor * last.page_size + last.page_size)

\* C5: one driver is created before any handler runs, every handler is
\* served that driver, open, with the context's database, and the driver is
\* closed exactly once when the server body ends, normally or not.
C5_SingleDriverLifetime ==
    /\ driver.created <= 1
    /\ pc \in {"start", "failed"} => driver.created = 0 /\ last.op = "none"
    /\ pc \in {"serving", "stopped", "crashed"} =>
          driver.created = 1 /\ lifespan_context.driver = driver.id
    /\ pc = "serving" => driver.open /\ driver.closes = 0
    /\ pc \in {"stopped", "crashed"} => ~driver.open /\ driver.closes = 1
    /\ last.op # "none" =>
          /\ last.driver = driver.id
          /\ last.driverOpen
          /\ last.database = lifespan_context.database

\* The body ended with an exception after a handler had been served.
C5_Witness ==
    /\ pc = "crashed"
    /\ last.op = "get_movie"
    /\ driver.closes = 1

ErrorLogs(logs) == {k \in DOMAIN logs : logs[k].level = "error"}

\* C6: when the query of get_movies_by_genre, get_movie or
\* list_movies_by_genre raises, the handler has run the query once, logs one
\* error carrying the exception text as its last message, re-raises that
\* exception and returns nothing.
C6_LogAndReraise ==
    (/\ last.op \in {"get_movies_by_genre", "get_movie", "list_movies_by_genre"}
     /\ last.queryExc # NoExc)
        => /\ last.outcome = "raise"
           /\ last.exc = last.queryExc
           /\ last.queries = 1
           /\ Cardinality(ErrorLogs(last.logs)) = 1
           /\ last.logs[Len(last.logs)].level = "error"
           /\ last.logs[Len(last.logs)].exc = last.queryExc
           /\ last.movies = <<>>
           /\ last.text = <<>>
           /\ last.next_cursor = None

\* The paginated query failed with a client error.
C6_Witness ==
    /\ last.op = "list_movies_by_genre"
    /\ last.queryExc = "ClientError"
    /\ last.outcome = "raise"

C8_GetMovieReturnsString ==
    (last.op = "get_movie" /\ last.queryExc = NoExc) =>
        /\ last.outcome = "return"
        /\ ErrorLogs(last.logs) = {}
        /\ last.tmdb_id \notin graph[last.target]
              => last.text = <<"Movie with TMDB ID ", IdText[last.tmdb_id + 1],
                               " not found in database">>
        /\ last.tmdb_id \in graph[last.target]
              => SubSeq(last.text, 1, 2) = <<"# ", TitleText[TitleRank(last.tmdb_id)]>>

\* C9: every query a handler issues runs against the database of the
\* AppContext.
C9_ConfiguredDatabase ==
    (last.op # "none" /\ last.queries > 0) => last.target = lifespan_context.database

\* C10: get_movies_by_genre returns the first limit entries of the genre's
\* movies by rating descending, a missing rating ranked as 0: at most limit
\* movies, all of the genre; and an empty list, with a warning, when the
\* genre has no movies.
C10_TopByRating ==
    IsReturn("get_movies_by_genre") =>
        /\ Len(last.movies) <= last.limit
        /\ Len(last.movies) = Min(last.limit, Cardinality(GenreMovies))
        /\ \E o \in ByRatingDesc(GenreMovies) :
              \A k \in 1..Len(last.movies) :
                 last.movies[k] = [title |-> Title(o[k]),
                                   imdbRating |-> ImdbRating(o[k]),
                                   released |-> Released(o[k])]
        /\ GenreMovies = {} =>
              /\ last.movies = <<>>
              /\ \E k \in DOMAIN last.logs : last.logs[k].level = "warning"

\* Two of three movies of the genre returned, one of them unrated.
C10_Witness ==
    /\ IsReturn("get_movies_by_genre")
    /\ last.limit = 2
    /\ Cardinality(GenreMovies) = 3
    /\ \E k \in 1..Len(last.movies) : last.movies[k].imdbRating = NullNum

=============================================================================
